---- MODULE Spec2Model ----
(***************************************************************************)
(* Asynchronous design-job lifecycle of the fashion AI platform:           *)
(*   create_ai_design  (app/api/endpoints.py)  upload, enqueue, record     *)
(*   process_design_task (app/service/tasks.py) the Celery task            *)
(*   get_task_status   (app/api/endpoints.py)  poll, which also records    *)
(*                                             the outcome in the database *)
(* The Celery application (app/core/celery_app.py) is created with default *)
(* settings: a message is acknowledged when a worker starts executing it   *)
(* (task_acks_late is off), the result backend keeps one entry per task id *)
(* and a later execution of the same task id overwrites it.                *)
(***************************************************************************)
EXTENDS Integers, FiniteSets, Sequences, TLC

\* ---------------------------------------------------------------- bounds
MaxSubmits == 1      \* number of create_ai_design requests
NumWorkers == 1      \* number of Celery worker processes
MaxFaults  == 1      \* broker redeliveries plus worker process crashes
MaxJobs     == 5     \* rows of design_tasks that get_design_history lists
MaxPage     == 4     \* largest page query parameter
MaxPageSize == 3     \* largest page_size query parameter

Requests == 1..MaxSubmits
Workers  == 1..NumWorkers

\* ------------------------------------------------------------- constants
None == "None"           \* Python None where a string is expected
NoId == <<"none", 0>>    \* Python None where a design id or task id is expected

ALLOWED_CONTENT_TYPES == {"image/jpeg", "image/png"}
MAX_FILE_SIZE == 10 * 1024 * 1024

PROCESSING == "processing"
COMPLETED  == "completed"
FAILED     == "failed"
DesignStatus == {PROCESSING, COMPLETED, FAILED}

\* the garment types get_meta_info offers to the client
GARMENT_TYPES == {"dress", "shirt", "pants", "coat", "tshirt", "skirt", "jacket"}

\* ---------------------------------------------------------------- inputs
\* declared content types of an upload: the two allowed ones and another
ContentTypes == ALLOWED_CONTENT_TYPES \cup {"image/gif"}
\* byte lengths of an upload: small, exactly the limit, one byte over
Sizes == {1, MAX_FILE_SIZE, MAX_FILE_SIZE + 1}
\* what json.loads / the fallback of parse_design_request can return:
\* a design spec, another one, or the JSON value null (Python None)
GeneratorResults == {"specA", "specB", None}
\* the garment_type form field: a value of the enumeration and another
GarmentInputs == {"dress", "hat"}
\* the description form field: a text and the empty string
DescriptionInputs == {"blue summer dress", ""}

\* design_id = "design_" + uuid, task.id = the uuid Celery gives the message
DesignId(i) == <<"design", i>>
TaskId(i)   == <<"task", i>>
DesignIds == {DesignId(i) : i \in Requests}
TaskIds   == {TaskId(i) : i \in Requests}
\* a task id no submission ever produced, for polls of unknown tasks
UnknownTask == <<"task", 0>>

VARIABLES
    req,       \* req[i]: the i-th create_ai_design call (position, input, response)
    files,     \* design ids that have an image file in UPLOAD_DIR
    db,        \* design_tasks table: design_id -> row
    queue,     \* broker: task ids of messages ready for delivery
    unacked,   \* broker: <<worker, task id>> delivered and not yet acknowledged
    worker,    \* worker[w]: what the worker process is doing
    backend,   \* Celery result backend: task id -> stored outcome
    resp,      \* response of the latest get_task_status call
    faults     \* number of broker redeliveries and worker crashes so far

vars == <<req, files, db, queue, unacked, worker, backend, resp, faults>>

IdleReq == [pc |-> "idle", ctype |-> None, size |-> 0,
            garment_type |-> None, description |-> None, task_id |-> NoId,
            code |-> 0, err |-> None]
IdleWorker == [state |-> "idle", task |-> NoId]
NoResp == [task |-> NoId, code |-> 0, status |-> None, design_id |-> NoId,
           result |-> None]

Init ==
    /\ req = [i \in Requests |-> IdleReq]
    /\ files = {}
    /\ db = <<>>
    /\ queue = {}
    /\ unacked = {}
    /\ worker = [w \in Workers |-> IdleWorker]
    /\ backend = <<>>
    /\ resp = NoResp
    /\ faults = 0

\* ------------------------------------------------------ create_ai_design
\* variant: the size check made before the content-type check
ValidateUpload_SizeFirst(ctype, size) ==
    IF size > MAX_FILE_SIZE THEN "size"
    ELSE IF ctype \notin ALLOWED_CONTENT_TYPES THEN "type"
    ELSE None

\* variant: an upload of exactly MAX_FILE_SIZE bytes is rejected as well
ValidateUpload_AtLimit(ctype, size) ==
    IF ctype \notin ALLOWED_CONTENT_TYPES THEN "type"
    ELSE IF size >= MAX_FILE_SIZE THEN "size"
    ELSE None

\* steps 1 and 2: the content-type check, then the size check
ValidateUpload(ctype, size) ==
    IF ctype \notin ALLOWED_CONTENT_TYPES THEN "type"
    ELSE IF size > MAX_FILE_SIZE THEN "size"
    ELSE None

\* the code of an error response: 422 from the framework for a missing form
\* field, 400 for HTTPException, 500 for any other exception
ErrorCode(err) ==
    IF err = "form" THEN 422
    ELSE IF err \in {"type", "size"} THEN 400
    ELSE 500

\* description: str = Form(...) is a required form field: the framework
\* answers 422 for a missing or empty value and does not call the handler.
\* garment_type is declared the same way and is always sent non-empty here.
FormAccepts(description) == description # ""

\* variant: the Job row is stored as soon as the image is saved, before the
\* Work Item is enqueued
SubmitBegin_JobFirst(i) ==
    /\ req[i].pc = "idle"
    /\ \E ctype \in ContentTypes, size \in Sizes,
          garment \in GarmentInputs, description \in DescriptionInputs,
          decodable \in BOOLEAN, written \in BOOLEAN, partial \in BOOLEAN :
         LET v   == ValidateUpload(ctype, size)
             err == IF ~FormAccepts(description) THEN "form"
                    ELSE IF v # None THEN v
                    ELSE IF ~decodable THEN "image"
                    ELSE IF ~written THEN "write"
                    ELSE None
         IN /\ req' = [req EXCEPT ![i] =
                        [pc |-> IF err = None THEN "enqueue" ELSE "done",
                         ctype |-> ctype, size |-> size,
                         garment_type |-> garment, description |-> description,
                         task_id |-> NoId,
                         code |-> IF err = None THEN 0 ELSE ErrorCode(err),
                         err |-> err]]
            /\ files' = IF err = None \/ (err = "write" /\ partial)
                        THEN files \cup {DesignId(i)} ELSE files
            /\ db' = IF err = None
                     THEN (DesignId(i) :> [task_id |-> NoId, status |-> PROCESSING,
                                           spec |-> None]) @@ db
                     ELSE db
    /\ UNCHANGED <<queue, unacked, worker, backend, resp, faults>>

\* steps 1-3: validate, decode and shrink the image, write it to UPLOAD_DIR.
\* decodable: Image.open accepts the bytes; written: open()/img.save succeed;
\* partial: a failing img.save leaves the file open() created.
SubmitBegin(i) ==
    /\ req[i].pc = "idle"
    /\ \E ctype \in ContentTypes, size \in Sizes,
          garment \in GarmentInputs, description \in DescriptionInputs,
          decodable \in BOOLEAN, written \in BOOLEAN, partial \in BOOLEAN :
         LET v   == ValidateUpload(ctype, size)
             err == IF ~FormAccepts(description) THEN "form"
                    ELSE IF v # None THEN v
                    ELSE IF ~decodable THEN "image"
                    ELSE IF ~written THEN "write"
                    ELSE None
         IN /\ req' = [req EXCEPT ![i] =
                        [pc |-> IF err = None THEN "enqueue" ELSE "done",
                         ctype |-> ctype, size |-> size,
                         garment_type |-> garment, description |-> description,
                         task_id |-> NoId,
                         code |-> IF err = None THEN 0 ELSE ErrorCode(err),
                         err |-> err]]
            /\ files' = IF err = None \/ (err = "write" /\ partial)
                        THEN files \cup {DesignId(i)} ELSE files
    /\ UNCHANGED <<db, queue, unacked, worker, backend, resp, faults>>

\* step 4: process_design_task.delay(...); the broker may be unreachable.
\* The uploaded bytes are not used after step 3, so the request no longer
\* carries them; description and garment_type are still needed for the row.
SubmitEnqueue(i) ==
    /\ req[i].pc = "enqueue"
    /\ \/ /\ req' = [req EXCEPT ![i] =
                      [IdleReq EXCEPT !.pc = "commit",
                                      !.task_id = TaskId(i),
                                      !.garment_type = req[i].garment_type,
                                      !.description = req[i].description]]
          /\ queue' = queue \cup {TaskId(i)}
       \/ /\ req' = [req EXCEPT ![i] = [IdleReq EXCEPT !.pc = "done",
                                     !.code = 500, !.err = "enqueue"]]
          /\ queue' = queue
    /\ UNCHANGED <<files, db, unacked, worker, backend, resp, faults>>

\* DesignTask(design_id=..., task_id=task.id, ..., status=PROCESSING). The row
\* also takes description and garment_type from the request as they are, the
\* image path and created_at; create_ai_design and get_task_status never read
\* these columns again, so the table of this specification leaves them out.
NewRow(i) == [task_id |-> req[i].task_id, status |-> PROCESSING, spec |-> None]

\* variant: the row is stored although db.commit() raised
RowsAfterFailedCommit_KeepsRow(i) == (DesignId(i) :> NewRow(i)) @@ db

\* the table after db.commit() raised: the session's pending row is not stored
RowsAfterFailedCommit(i) == db

\* step 5: db.add(new_task); db.commit(); then the 200 response
SubmitCommit(i) ==
    /\ req[i].pc = "commit"
    /\ \/ /\ db' = (DesignId(i) :> NewRow(i)) @@ db
          /\ req' = [req EXCEPT ![i] = [IdleReq EXCEPT !.pc = "done",
                                     !.task_id = req[i].task_id, !.code = 200]]
       \/ /\ db' = RowsAfterFailedCommit(i)
          /\ req' = [req EXCEPT ![i] = [IdleReq EXCEPT !.pc = "done",
                                     !.task_id = req[i].task_id, !.code = 500,
                                     !.err = "commit"]]
    /\ UNCHANGED <<files, queue, unacked, worker, backend, resp, faults>>

\* ------------------------------------------------- Celery broker / worker
\* a worker reserves a ready message; the broker keeps it as unacknowledged
Receive(w) ==
    /\ worker[w].state = "idle"
    /\ \E t \in queue :
         /\ queue' = queue \ {t}
         /\ unacked' = unacked \cup {<<w, t>>}
         /\ worker' = [worker EXCEPT ![w] = [state |-> "reserved", task |-> t]]
    /\ UNCHANGED <<req, files, db, backend, resp, faults>>

\* visibility timeout: the broker puts a delivered, unacknowledged message
\* back on the queue while the worker that reserved it still holds it
Restore(w) ==
    /\ faults < MaxFaults
    /\ \E t \in TaskIds :
         /\ <<w, t>> \in unacked
         /\ unacked' = unacked \ {<<w, t>>}
         /\ queue' = queue \cup {t}
    /\ faults' = faults + 1
    /\ UNCHANGED <<req, files, db, worker, backend, resp>>

\* the worker acknowledges the message and only then calls the task body
Start(w) ==
    /\ worker[w].state = "reserved"
    /\ unacked' = unacked \ {<<w, worker[w].task>>}
    /\ worker' = [worker EXCEPT ![w].state = "running"]
    /\ UNCHANGED <<req, files, db, queue, backend, resp, faults>>

\* process_design_task returns ai_result (stored as SUCCESS) or an exception
\* leaves QianwenService (stored as FAILURE); the task writes nothing else
Finish(w) ==
    /\ worker[w].state = "running"
    /\ \E outcome \in [state : {"SUCCESS"}, result : GeneratorResults]
                      \cup {[state |-> "FAILURE", result |-> "exception"]} :
         backend' = (worker[w].task :> outcome) @@ backend
    /\ worker' = [worker EXCEPT ![w] = IdleWorker]
    /\ UNCHANGED <<req, files, db, queue, unacked, resp, faults>>

\* the generator call never returns; the task has no time limit. Without
\* fairness a worker that stays "running" for ever already is such a call, so
\* only the fair specification needs this step.
Hang(w) ==
    /\ worker[w].state = "running"
    /\ worker' = [worker EXCEPT ![w].state = "hung"]
    /\ UNCHANGED <<req, files, db, queue, unacked, backend, resp, faults>>

\* the worker process dies. A message it had only reserved goes back to the
\* queue; a message it had started is already acknowledged and is gone.
Crash(w) ==
    /\ faults < MaxFaults
    /\ worker[w].state \in {"reserved", "running", "hung"}
    /\ faults' = faults + 1
    /\ worker' = [worker EXCEPT ![w] = IdleWorker]
    /\ IF <<w, worker[w].task>> \in unacked
       THEN /\ unacked' = unacked \ {<<w, worker[w].task>>}
            /\ queue' = queue \cup {worker[w].task}
       ELSE UNCHANGED <<queue, unacked>>
    /\ UNCHANGED <<req, files, db, backend, resp>>

\* ------------------------------------------------------- get_task_status
\* variant: the row is looked up by design_id instead of task_id
FindByDesign(t) == IF t \in DOMAIN db THEN t ELSE NoId

\* db.query(DesignTask).filter(DesignTask.task_id == task_id).first()
FindByTask(t) ==
    IF \E d \in DOMAIN db : db[d].task_id = t
    THEN CHOOSE d \in DOMAIN db : db[d].task_id = t
    ELSE NoId

\* AsyncResult(task_id).ready(): an outcome is stored in the result backend
Ready(t) == t \in DOMAIN backend

\* variant: a task that is not ready is recorded as failed
Poll_UnreadyFailed(t) ==
    LET d == FindByTask(t) IN
    /\ UNCHANGED <<req, files, queue, unacked, worker, backend, faults>>
    /\ IF d = NoId
       THEN /\ resp' = [NoResp EXCEPT !.task = t, !.code = 404]
            /\ db' = db
       ELSE IF Ready(t) /\ backend[t].state = "SUCCESS"
       THEN /\ db' = [db EXCEPT ![d].status = COMPLETED,
                                ![d].spec = backend[t].result]
            /\ resp' = [task |-> t, code |-> 200, status |-> COMPLETED,
                        design_id |-> d, result |-> backend[t].result]
       ELSE /\ db' = [db EXCEPT ![d].status = FAILED]
            /\ resp' = [task |-> t, code |-> 500, status |-> FAILED,
                        design_id |-> d, result |-> None]

Poll(t) ==
    LET d == FindByTask(t) IN
    /\ UNCHANGED <<req, files, queue, unacked, worker, backend, faults>>
    /\ IF d = NoId
       THEN /\ resp' = [NoResp EXCEPT !.task = t, !.code = 404]
            /\ db' = db
       ELSE IF Ready(t)
       THEN IF backend[t].state = "SUCCESS"
            THEN /\ db' = [db EXCEPT ![d].status = COMPLETED,
                                     ![d].spec = backend[t].result]
                 /\ resp' = [task |-> t, code |-> 200, status |-> COMPLETED,
                             design_id |-> d, result |-> backend[t].result]
            ELSE /\ db' = [db EXCEPT ![d].status = FAILED]
                 /\ resp' = [task |-> t, code |-> 500, status |-> FAILED,
                             design_id |-> d, result |-> None]
       ELSE /\ db' = db
            /\ resp' = [task |-> t, code |-> 200, status |-> PROCESSING,
                        design_id |-> d, result |-> None]

\* ---------------------------------------------------------- specification
Next ==
    \/ \E i \in Requests : SubmitBegin(i)
    \/ \E i \in Requests : SubmitEnqueue(i)
    \/ \E i \in Requests : SubmitCommit(i)
    \/ \E w \in Workers : Receive(w)
    \/ \E w \in Workers : Restore(w)
    \/ \E w \in Workers : Start(w)
    \/ \E w \in Workers : Finish(w)
    \/ \E w \in Workers : Crash(w)
    \/ \E t \in TaskIds \cup {UnknownTask} : Poll(t)

Spec == Init /\ [][Next]_vars

\* a specification of runs in which no worker process crashes and the broker
\* redelivers nothing, every handler and worker that can take a step
\* eventually takes it, and every task is polled again and again
FairNext ==
    \/ \E i \in Requests : SubmitBegin(i)
    \/ \E i \in Requests : SubmitEnqueue(i)
    \/ \E i \in Requests : SubmitCommit(i)
    \/ \E w \in Workers : Receive(w)
    \/ \E w \in Workers : Start(w)
    \/ \E w \in Workers : Finish(w)
    \/ \E w \in Workers : Hang(w)
    \/ \E t \in TaskIds \cup {UnknownTask} : Poll(t)

FairSpec ==
    /\ Init
    /\ [][FairNext]_vars
    /\ \A i \in Requests : WF_vars(SubmitEnqueue(i)) /\ WF_vars(SubmitCommit(i))
    /\ \A w \in Workers : WF_vars(Receive(w)) /\ WF_vars(Start(w)) /\ WF_vars(Finish(w))
    /\ \A t \in TaskIds : WF_vars(Poll(t))

\* ---------------------------------------------------- get_design_history
\* the page query parameter: values below 1 and pages past the last one
Pages == -1..MaxPage
\* the page_size query parameter, zero included
PageSizes == 0..MaxPageSize

\* a stored row together with its created_at column, which only
\* get_design_history reads (order_by); times are positions on a clock
HistoryRow(k, t) == [task_id |-> TaskId(k), status |-> PROCESSING,
                     spec |-> None, created_at |-> t]

\* the tables of n jobs created at n distinct times, in every order
HistoryTables(n) ==
    {[d \in {DesignId(k) : k \in 1..n} |-> HistoryRow(d[2], c[d[2]])] :
        c \in {f \in [1..n -> 1..n] :
                  \A a, b \in 1..n : a # b => f[a] # f[b]}}

\* db.query(DesignTask).order_by(DesignTask.created_at.desc()): the design
\* ids of the table, the most recently created first
RECURSIVE OrderByCreatedAtDesc(_, _)
OrderByCreatedAtDesc(table, ids) ==
    IF ids = {} THEN <<>>
    ELSE LET d == CHOOSE x \in ids :
                      \A y \in ids : table[y].created_at <= table[x].created_at
         IN <<d>> \o OrderByCreatedAtDesc(table, ids \ {d})

\* variant: the offset of page p is taken to be p pages
Offset_FromPage(page, page_size) == page * page_size

\* offset = (page - 1) * page_size
Offset(page, page_size) == (page - 1) * page_size

\* query.offset(offset).limit(limit).all()
OffsetLimit(query, offset, limit) ==
    SubSeq(query, offset + 1,
           IF offset + limit < Len(query) THEN offset + limit ELSE Len(query))

\* the handler. asked keeps the query parameters as they were sent; items are
\* the design ids of the returned rows in the order returned. With
\* page_size = 0 the total_pages division raises and the except branch
\* answers code 500 with data None.
get_design_history(page, page_size) ==
    LET p      == IF page < 1 THEN 1 ELSE page
        offset == Offset(p, page_size)
        query  == OrderByCreatedAtDesc(db, DOMAIN db)
        total  == Len(query)
        tasks  == OffsetLimit(query, offset, page_size)
    IN /\ resp' = IF page_size = 0
                  THEN [asked |-> <<page, page_size>>, code |-> 500,
                        items |-> <<>>, total |-> 0, page |-> 0,
                        page_size |-> 0, total_pages |-> 0]
                  ELSE [asked |-> <<page, page_size>>, code |-> 200,
                        items |-> tasks, total |-> total, page |-> p,
                        page_size |-> page_size,
                        total_pages |-> (total + page_size - 1) \div page_size]
       /\ UNCHANGED <<req, files, db, queue, unacked, worker, backend, faults>>

\* a specification of the history query alone: the table holds up to MaxJobs
\* jobs created at distinct times and clients ask for pages of it
ListInit ==
    /\ req = [i \in Requests |-> IdleReq]
    /\ files = {}
    /\ \E n \in 0..MaxJobs : db \in HistoryTables(n)
    /\ queue = {}
    /\ unacked = {}
    /\ worker = [w \in Workers |-> IdleWorker]
    /\ backend = <<>>
    /\ resp = NoResp
    /\ faults = 0

ListNext == \E page \in Pages, page_size \in PageSizes :
                get_design_history(page, page_size)

ListSpec == ListInit /\ [][ListNext]_vars

\* ------------------------------------------------------------ properties
Terminal == {COMPLETED, FAILED}

\* the task ids some worker currently holds (reserved, running or hung)
HeldTasks == {worker[w].task : w \in {v \in Workers : worker[v].state # "idle"}}

\* no worker has begun executing task t and no outcome of it is stored
NotStarted(t) ==
    /\ ~Ready(t)
    /\ \A w \in Workers : ~(worker[w].state \in {"running", "hung"} /\ worker[w].task = t)

SubmittedOk(i) == req[i].pc = "done" /\ req[i].code = 200

\* C1: once a job's stored status is Completed or Failed, no later task
\* outcome or poll changes its stored record (status and result): the record
\* stays the one written for the outcome that landed first.
C1_TerminalRecordFrozen ==
    [][\A d \in DOMAIN db : db[d].status \in Terminal => db'[d] = db[d]]_vars

\* C2: the stored status only moves Processing -> Completed or
\* Processing -> Failed; a status that changes was Processing before.
C2_StatusMonotone ==
    [][\A d \in DOMAIN db :
          db'[d].status # db[d].status => db[d].status = PROCESSING]_vars

\* C3: a stored job carries a result (spec) if and only if its status is
\* Completed.
C3_ResultIffCompleted ==
    \A d \in DOMAIN db : (db[d].spec # None) <=> (db[d].status = COMPLETED)

\* C4 (as claimed): every Work Item in the queue or in a worker's hands
\* belongs to a job that already exists in the Job Store.
C4_JobExistsBeforeWorkItem ==
    \A t \in queue \cup HeldTasks : \E d \in DOMAIN db : db[d].task_id = t

\* C4 (amended): Submit enqueues the Work Item before it commits the Job row.
\* The step that puts a request's Work Item on the queue leaves the Job Store
\* without that job, and the step that creates the job's row is taken only
\* after delay() returned the task id, which the row then carries.
C4_EnqueueBeforeCommit ==
    [][\A i \in Requests :
          /\ (req[i].pc = "enqueue" /\ req'[i].pc = "commit")
                => (TaskId(i) \in queue' /\ DesignId(i) \notin DOMAIN db')
          /\ (DesignId(i) \notin DOMAIN db /\ DesignId(i) \in DOMAIN db')
                => /\ req[i].pc = "commit"
                   /\ req[i].task_id = TaskId(i)
                   /\ db'[DesignId(i)].task_id = TaskId(i)]_vars

\* a worker is executing a Work Item whose job is not in the Job Store
C4_Witness ==
    \E w \in Workers :
        /\ worker[w].state = "running"
        /\ \A d \in DOMAIN db : db[d].task_id # worker[w].task

\* C5 (as claimed): a Submit whose enqueue failed leaves its job in the Job
\* Store with status Failed, and no failed Submit leaves a Processing job
\* whose Work Item was never enqueued.
C5_EnqueueFailureMarksFailed ==
    \A i \in Requests :
        /\ (req[i].pc = "done" /\ req[i].err = "enqueue")
              => (DesignId(i) \in DOMAIN db /\ db[DesignId(i)].status = FAILED)
        /\ (req[i].pc = "done" /\ req[i].err \in {"enqueue", "commit"})
              => ~(DesignId(i) \in DOMAIN db /\ db[DesignId(i)].status = PROCESSING)

\* C5 (amended): a Submit whose enqueue or whose commit failed leaves no Job
\* row at all, so it leaves no job that is Processing for ever.
C5_FailedSubmitLeavesNoJob ==
    \A i \in Requests :
        (req[i].pc = "done" /\ req[i].err \in {"enqueue", "commit"})
            => DesignId(i) \notin DOMAIN db

\* a Submit has answered 500 because the enqueue failed
C5_Witness ==
    \E i \in Requests :
        req[i].pc = "done" /\ req[i].err = "enqueue" /\ req[i].code = 500

\* C6: every successfully submitted job is eventually reported by a poll as
\* Completed or Failed.
C6_EventuallyTerminal ==
    \A i \in Requests :
        SubmittedOk(i) ~> (resp.design_id = DesignId(i) /\ resp.status \in Terminal)

\* C7: while a worker executes a Work Item whose outcome is not yet stored,
\* the broker still holds the item (unacknowledged or queued), so that a
\* crash of the worker leads to its redelivery.
C7_AckAfterTerminalWrite ==
    \A w \in Workers :
        worker[w].state \in {"running", "hung"}
            => (<<w, worker[w].task>> \in unacked \/ worker[w].task \in queue)

C9_PollAfterSubmitProcessing ==
    [][\A i \in Requests :
          (Poll(TaskId(i)) /\ SubmittedOk(i) /\ NotStarted(TaskId(i)))
            => resp' = [task |-> TaskId(i), code |-> 200, status |-> PROCESSING,
                        design_id |-> DesignId(i), result |-> None]]_vars

\* a poll has answered processing for a submitted job no worker has begun
C9_Witness ==
    \E i \in Requests :
        /\ SubmittedOk(i)
        /\ NotStarted(TaskId(i))
        /\ resp.task = TaskId(i)
        /\ resp.status = PROCESSING
        /\ resp.design_id = DesignId(i)

\* C10: a Submit whose declared content type is not allowed is answered with
\* a 4xx validation error, and that step writes no file, no Job row and no
\* Work Item; when the handler is called (the form fields are accepted) the
\* answer is 400 with the content-type error, also when the upload is too
\* large as well: the content-type check precedes the size check.
C10_BadTypeRejectedFirst ==
    [][\A i \in Requests :
          (req[i].pc = "idle" /\ req'[i].pc # "idle"
              /\ req'[i].ctype \notin ALLOWED_CONTENT_TYPES)
            => /\ req'[i].pc = "done"
               /\ req'[i].code \in 400..499
               /\ FormAccepts(req'[i].description)
                     => (req'[i].code = 400 /\ req'[i].err = "type")
               /\ files' = files /\ db' = db
               /\ queue' = queue /\ unacked' = unacked]_vars

\* a Submit with a disallowed type and an oversized upload was rejected
C10_Witness ==
    \E i \in Requests :
        /\ req[i].pc = "done"
        /\ req[i].ctype \notin ALLOWED_CONTENT_TYPES
        /\ req[i].size > MAX_FILE_SIZE
        /\ req[i].code = 400
        /\ DesignId(i) \notin files

\* C11: an upload with an allowed content type is rejected with a 4xx
\* validation error when it is longer than MAX_FILE_SIZE (by the handler's
\* size check with 400 when the form fields are accepted), and is not
\* rejected for its size when its length is MAX_FILE_SIZE or less.
C11_SizeLimitBoundary ==
    [][\A i \in Requests :
          (req[i].pc = "idle" /\ req'[i].pc # "idle"
              /\ req'[i].ctype \in ALLOWED_CONTENT_TYPES)
            => IF req'[i].size > MAX_FILE_SIZE
               THEN /\ req'[i].pc = "done"
                    /\ req'[i].code \in 400..499
                    /\ FormAccepts(req'[i].description)
                          => (req'[i].code = 400 /\ req'[i].err = "size")
               ELSE req'[i].err # "size"]_vars

\* an upload of exactly MAX_FILE_SIZE bytes has passed validation and is
\* about to be enqueued
C11_Witness ==
    \E i \in Requests :
        /\ req[i].pc = "enqueue"
        /\ req[i].ctype \in ALLOWED_CONTENT_TYPES
        /\ req[i].size = MAX_FILE_SIZE

\* C14: a create_ai_design call that answered with an error has left nothing
\* behind: no image file, no Job row and no Work Item of that call exists.
C14_ErrorLeavesNoTrace ==
    \A i \in Requests :
        (req[i].pc = "done" /\ req[i].code # 200)
            => /\ DesignId(i) \notin files
               /\ DesignId(i) \notin DOMAIN db
               /\ TaskId(i) \notin queue \cup HeldTasks

\* C13: only a request whose garment_type is in the enumeration and whose
\* description is not empty creates a Job: whenever a Job row is created, the
\* request it is created for has a garment type of the enumeration and a
\* non-empty description.
C13_CategoryAndDescriptionValidated ==
    [][\A i \in Requests :
          (DesignId(i) \notin DOMAIN db /\ DesignId(i) \in DOMAIN db')
            => /\ req[i].garment_type \in GARMENT_TYPES
               /\ req[i].description # ""]_vars

\* the position of job d among the jobs ordered by creation time, newest = 1
Rank(d) == 1 + Cardinality({e \in DOMAIN db :
                               db[e].created_at > db[d].created_at})

\* C12: over N jobs created at distinct times, a successful List for page p
\* (a page below 1 counting as page 1) and page size s >= 1 returns exactly
\* the jobs at positions (p-1)*s+1 .. min(p*s, N) of the jobs ordered by
\* creation time descending, in that order, and total = N.
C12_PageIsSliceOfNewestFirst ==
    (resp.code = 200 /\ resp.asked[2] >= 1)
        => LET p     == IF resp.asked[1] < 1 THEN 1 ELSE resp.asked[1]
               s     == resp.asked[2]
               N     == Cardinality(DOMAIN db)
               first == (p - 1) * s + 1
               last  == IF p * s < N THEN p * s ELSE N
           IN /\ resp.total = N
              /\ Len(resp.items) = IF last >= first THEN last - first + 1 ELSE 0
              /\ \A k \in 1..Len(resp.items) :
                     /\ resp.items[k] \in DOMAIN db
                     /\ Rank(resp.items[k]) = first + k - 1

\* over 5 jobs, page 3 of size 2 returned the single oldest job
C12_Witness ==
    /\ resp.code = 200
    /\ Cardinality(DOMAIN db) = 5
    /\ resp.asked = <<3, 2>>
    /\ Len(resp.items) = 1
    /\ \A e \in DOMAIN db :
          db[e].created_at >= db[resp.items[1]].created_at
====
